---- MODULE Spec2Model ----
\* Model of the validator coordinator of package ethvalidator (coordinator.go):
\* the ClientManager loop, the MessageProcessingQueue loop, the
\* ValidatorCoordinator.Run loop with its three round handlers, the
\* gatherSignatures task, and the followers and the Bot as environment.
EXTENDS Integers, Sequences, FiniteSets, TLC

\* ---------------------------------------------------------------- bounds
MaxValidators == 3      \* largest validator set: the coordinator and two followers
MaxRounds == 2          \* rounds the Controller starts in one behaviour
MaxCalls == 1           \* calls of the exposed coordinator API
MaxConn == 2            \* connections accepted by RunServer
MaxResp == 2            \* follower responses read from the connections
MaxSend == 2            \* SendMessage calls
MaxExit == 1            \* readPump tasks that leave their loop
ToClientCap == 1        \* capacity of Client.ToClient, scaled down from 128
SigRequestCap == 1      \* capacity of m.sigRequestChan, scaled down from 10

\* ------------------------------------------------------- program constants
MAX_U64 == 15                     \* math.MaxUint64, sequence numbers scaled to 4 bits
BroadcastCap == 10                \* make(chan *ValidatorRequest, 10)
RegisterCap == 10                 \* make(chan *Client, 10)
WaitRequestCap == 128             \* make(chan chan bool, 128)
AggResponseCap == 32              \* make(chan LabeledFollowerResponse, 32)
MpqCap == 10                      \* make(chan interface{}, 10)
RequestChanCap == 10              \* make(chan ValidatorLeaderRequest, 10)

\* --------------------------------------------------------------- the data
CoordinatorIndex == 0
NoSig == 0                                  \* the zero valmessage.Signature
\* a signature is modelled by the address of its signer, shifted past NoSig
SigOf(address) == address + 1

CreateHashVal == 0                          \* CreateVMHash(createData)
UnanDigests == {1}                          \* values of unanRequest.Hash()
Digests == {CreateHashVal} \cup UnanDigests
SeqNums == {1, MAX_U64}                     \* sequence numbers the Bot reports
NoHash == 0

ErrNotConnected == "coordinator can only create VM when connected to all other validators"
ErrNoResponse == "some Validators didn't respond"
ErrRefused == "some Validators refused to sign"
ErrWrongAssertion == "some Validators signed the wrong assertion"
ErrBot == "bot error"
ErrLocal == "hash or sign error"

\* Val.UnanimousAssertHash: injective in the sequence number (the other
\* arguments are fixed by the Bot's results and left out)
UnanimousAssertHash(sequenceNum) == IF sequenceNum = MAX_U64 THEN 2 ELSE 1
AssertionHashes == {UnanimousAssertHash(s) : s \in SeqNums}

VARIABLES
  \* ValidatorCoordinator.Run
  pc,                   \* position of the Controller task
  rd,                   \* the round the Controller runs or ran last
  pendingForProcessing,
  hasPendingMessages,   \* what Bot.HasPendingMessages answered at the last tick
  requestChan,          \* m.requestChan
  retChan, errChan,     \* per API call: the values delivered on its channels
  nround,               \* rounds started
  ncalls,               \* API calls made
  inflight,             \* round handlers entered and not yet returned
  \* ClientManager
  clients,              \* m.clients (set of connections)
  connAddr,             \* per connection: the address recovered from its signature
  handshake,            \* per connection: how RunServer's handler ended
  readers,              \* connections whose readPump runs
  writers,              \* connections whose writePump was started
  pumped,               \* connections whose response forwarder was started
  toClient,             \* per connection: len(Client.ToClient)
  closed,               \* per connection: number of close(ToClient)
  broadcast, register, unregister, waitRequestChan, sigRequestChan,
  aggResponseChan,
  waitingChans,         \* m.waitingChans
  waitChan,             \* wait channels holding a buffered true
  responses,            \* m.responses: digest -> sink (0 = no entry)
  sinks,                \* per round: its responseChan
  cmHeld,               \* response the manager is blocked sending
  gth,                  \* per round: the gatherSignatures task
  \* MessageProcessingQueue
  queuedMessages, mpqRequests,
  confirmed,            \* messages of the rounds the Bot confirmed
  nsent, nresp, nexit,
  load                  \* the workload of the behaviour: what the environment does

vars == <<pc, rd, pendingForProcessing, hasPendingMessages, requestChan, retChan, errChan, nround, ncalls,
          inflight, clients, connAddr, handshake, readers, writers, pumped,
          toClient, closed,
          broadcast, register, unregister, waitRequestChan, sigRequestChan,
          aggResponseChan, waitingChans, waitChan, responses, sinks, cmHeld,
          gth, queuedMessages, mpqRequests, confirmed, nsent, nresp, nexit,
          load>>

ctlVars == <<pc, rd, pendingForProcessing, requestChan, retChan, errChan,
             nround, ncalls, inflight>>
\* the ClientManager state no Controller step touches
cmOwn == <<clients, pumped, toClient, closed, register, unregister,
           aggResponseChan, waitingChans, responses, sinks, cmHeld>>
cmVars == <<clients, pumped, toClient, closed, broadcast, register,
            unregister, waitRequestChan, sigRequestChan, aggResponseChan,
            waitingChans, waitChan, responses, sinks, cmHeld>>
connVars == <<connAddr, handshake, readers, writers>>
mpqVars == <<queuedMessages, mpqRequests>>
envVars == <<nsent, nresp, nexit, load, confirmed, hasPendingMessages>>

Rounds == 1 .. MaxRounds
Conns == 1 .. MaxConn
Calls == 1 .. MaxCalls

\* len(m.validators), fixed when the coordinator is constructed
NumValidators == load.n
Followers == 1 .. (NumValidators - 1)       \* follower addresses
Indices == 0 .. (NumValidators - 1)
\* m.Val.Validators[address].indexNum
indexNum(address) == address

\* the configuration and the environment of one behaviour: the size of the
\* validator set, the connections accepted, the readPump exits, the follower
\* responses, the SendMessage calls, the API calls and their kinds, the
\* rounds, and whether the Bot ever reports pending on-chain messages
Workload(n, conn, exit, resp, send, call, kinds, round, botPending) ==
  [n |-> n, conn |-> conn, exit |-> exit, resp |-> resp, send |-> send,
   call |-> call, kinds |-> kinds, round |-> round, botPending |-> botPending]
Kinds == {"create", "disputable", "unanimous"}
Workloads ==
  { \* a unanimous round of two validators with the ingress queue in use
    Workload(2, 1, 0, 1, MaxSend, 0, {}, 1, TRUE),
    \* one follower that answers more often than it is asked
    Workload(2, 1, 0, MaxResp, 0, 0, {}, 1, TRUE),
    \* rounds of every kind one after the other, no follower connected
    Workload(2, 0, 0, 0, 0, MaxCalls, Kinds, MaxRounds, TRUE),
    \* failed rounds one after the other with the ingress queue in use
    Workload(2, 0, 0, 0, MaxSend, 0, {}, MaxRounds, TRUE),
    \* a Create round of the largest validator set with answering followers
    Workload(MaxValidators, MaxConn, 0, MaxResp, 0, 1, {"create"}, 1, FALSE),
    \* connections that come and go around a Create round
    Workload(MaxValidators, MaxConn, MaxExit, 0, 0, 1, {"create"}, 1, FALSE),
    \* a unanimous round of the largest validator set with one follower that
    \* answers more than once
    Workload(MaxValidators, 1, 0, MaxResp, 0, 0, {}, 1, TRUE) }
\* a follower that answers once, with any request id, and unanimous rounds
\* started by the tick and by a call until the channel of signature requests
\* is full
StallWorkloads ==
  { Workload(2, 1, 0, 1, 0, MaxCalls, {"unanimous"}, MaxRounds, TRUE) }

NoRound ==
  [n |-> 0, kind |-> "none", origin |-> 0, final |-> FALSE, batch |-> <<>>,
   gotAll |-> "none", seen |-> {}, hashId |-> 0, outMsgs |-> 0, seq |-> 0,
   unanHash |-> NoHash, got |-> <<>>, sigSent |-> FALSE, notified |-> <<>>,
   botCalls |-> {}, sigs |-> <<>>, returned |-> FALSE, closure |-> <<>>,
   at |-> "none", outcome |-> "running"]

\* the state after NewValidatorCoordinator, for a workload of the given set
Start(workloads) ==
  /\ pc = "idle"
  /\ rd = NoRound
  /\ pendingForProcessing = FALSE
  /\ hasPendingMessages = FALSE
  /\ requestChan = <<>>
  /\ retChan = [c \in Calls |-> <<>>]
  /\ errChan = [c \in Calls |-> <<>>]
  /\ ncalls = 0
  /\ nround = 0
  /\ inflight = 0
  /\ clients = {}
  /\ connAddr = <<>>
  /\ handshake = <<>>
  /\ readers = {}
  /\ writers = {}
  /\ pumped = {}
  /\ toClient = [c \in Conns |-> 0]
  /\ closed = [c \in Conns |-> 0]
  /\ broadcast = <<>>
  /\ register = <<>>
  /\ unregister = <<>>
  /\ waitRequestChan = <<>>
  /\ sigRequestChan = <<>>
  /\ aggResponseChan = <<>>
  /\ waitingChans = {}
  /\ waitChan = {}
  /\ responses = [d \in Digests |-> 0]
  /\ sinks = [r \in Rounds |-> <<>>]
  /\ cmHeld = <<>>
  /\ gth = [r \in Rounds |-> [st |-> "none", id |-> 0, got |-> <<>>]]
  /\ queuedMessages = <<>>
  /\ mpqRequests = <<>>
  /\ nsent = 0
  /\ nresp = 0
  /\ nexit = 0
  /\ confirmed = {}
  /\ load \in workloads

Init == Start(Workloads)

\* ------------------------------------------------- MessageProcessingQueue
MpqRequest(type, batch) == [type |-> type, batch |-> batch]

\* mutants of ReturnMessages: the returned batch is dropped; the returned batch
\* is put behind the messages that arrived since
ReturnMessagesDrop(request, queued) == queued
ReturnMessagesBehind(request, queued) == queued \o request

\* case []OffchainMessage: append(request, m.queuedMessages...)
ReturnMessages(request, queued) == request \o queued

\* case OffchainMessage: append(m.queuedMessages, request)
SendMessages(queued, request) == queued \o request

\* the switch of MessageProcessingQueue.run for the two requests that have no
\* reply channel
MpqApply(queued, request) ==
  IF request.type = "Return" THEN ReturnMessages(request.batch, queued)
  ELSE SendMessages(queued, request.batch)

\* m.queuedMessages after the loop has taken every request of the sequence
RECURSIVE MpqDrain(_, _)
MpqDrain(queued, requests) ==
  IF requests = <<>> THEN queued
  ELSE MpqDrain(MpqApply(queued, Head(requests)), Tail(requests))

\* ValidatorCoordinator.SendMessage -> MessageProcessingQueue.Send
SendMessage ==
  /\ nsent < load.send
  /\ Len(mpqRequests) < MpqCap
  /\ nsent' = nsent + 1
  /\ mpqRequests' = Append(mpqRequests, MpqRequest("Send", <<nsent + 1>>))
  /\ UNCHANGED <<ctlVars, cmVars, connVars, gth, queuedMessages, nresp, nexit,
                 load, confirmed, hasPendingMessages>>

\* one iteration of the loop of MessageProcessingQueue.run, for a request
\* without reply channel
MpqRun ==
  /\ mpqRequests # <<>>
  /\ mpqRequests' = Tail(mpqRequests)
  /\ queuedMessages' = MpqApply(queuedMessages, Head(mpqRequests))
  /\ UNCHANGED <<ctlVars, cmVars, connVars, gth, envVars>>

\* <-m.mpq.HasMessages(): the caller blocks until the loop has taken the
\* requests sent before and answered len(m.queuedMessages) > 0
HasMessages == Len(MpqDrain(queuedMessages, mpqRequests)) > 0

\* <-m.mpq.Fetch(): the caller blocks until the loop has taken the requests
\* sent before and answered m.queuedMessages, which it then sets to nil
FetchBatch == MpqDrain(queuedMessages, mpqRequests)

\* ------------------------------------------------------ follower connections
ValidatorRequest(kind, id, ok) == [kind |-> kind, id |-> id, ok |-> ok]
FollowerResponse(address, id, accepted, hash) ==
  [address |-> address, id |-> id, accepted |-> accepted, hash |-> hash]

\* an address outside m.validators, and the address of a signature from which
\* no public key is recovered
Stranger == NumValidators
NoAddress == 0 - 1

\* mutant of Handshake: the address is not looked up in m.validators
HandshakeAnyAddress(address, recovered, written) ==
  IF ~recovered THEN "SigToPub"
  ELSE IF ~written THEN "Close" ELSE "ok"

\* the returns of RunServer's handler after the upgrade: crypto.SigToPub
\* fails, the address is not in m.validators, wr.Close() fails, or none does
Handshake(address, recovered, written) ==
  IF ~recovered THEN "SigToPub"
  ELSE IF address \notin Indices THEN "validators"
  ELSE IF ~written THEN "Close" ELSE "ok"

\* RunServer's handler for one connection; past the handshake: NewClient,
\* m.register <- c, go c.readPump(), go c.writePump()
RunServer ==
  /\ Len(connAddr) < load.conn
  /\ \E address \in Followers \cup {Stranger}, recovered, written \in BOOLEAN :
       LET c == Len(connAddr) + 1
           outcome == Handshake(address, recovered, written) IN
         /\ connAddr' = Append(connAddr, IF recovered THEN address ELSE NoAddress)
         /\ handshake' = Append(handshake, outcome)
         /\ IF outcome = "ok"
              THEN /\ Len(register) < RegisterCap
                   /\ register' = Append(register, c)
                   /\ readers' = readers \cup {c}
                   /\ writers' = writers \cup {c}
              ELSE UNCHANGED <<register, readers, writers>>
  /\ UNCHANGED <<ctlVars, mpqVars, envVars, gth, clients, pumped, toClient,
                 closed, broadcast, unregister, waitRequestChan,
                 sigRequestChan, aggResponseChan, waitingChans, waitChan,
                 responses, sinks, cmHeld>>

\* Client.readPump leaves its loop: c.cm.unregister <- c
readPumpExit ==
  /\ nexit < load.exit
  /\ nexit' = nexit + 1
  /\ Len(unregister) < RegisterCap
  /\ \E c \in readers :
       /\ readers' = readers \ {c}
       /\ unregister' = Append(unregister, c)
  /\ UNCHANGED <<ctlVars, mpqVars, nsent, nresp, load, confirmed,
                 hasPendingMessages, gth, connAddr, handshake, writers,
                 clients, pumped,
                 toClient, closed, broadcast, register, waitRequestChan,
                 sigRequestChan, aggResponseChan, waitingChans, waitChan,
                 responses, sinks, cmHeld>>

\* a response of the follower behind connection c: read by readPump into
\* c.FromClient and forwarded, labelled with the address, to aggResponseChan
\* by the task ClientManager.Run started when it registered c
readPump ==
  /\ nresp < load.resp
  /\ Len(aggResponseChan) < AggResponseCap
  /\ \E c \in pumped, id \in Digests, accepted \in BOOLEAN,
        hash \in AssertionHashes :
       /\ id = CreateHashVal => hash = UnanimousAssertHash(1)
       /\ aggResponseChan' = Append(aggResponseChan,
             FollowerResponse(connAddr[c], id, accepted,
                              IF id = CreateHashVal THEN NoHash ELSE hash))
  /\ nresp' = nresp + 1
  /\ UNCHANGED <<ctlVars, mpqVars, connVars, gth, nsent, nexit, load, confirmed,
                 hasPendingMessages, clients, pumped,
                 toClient, closed, broadcast, register, unregister,
                 waitRequestChan, sigRequestChan, waitingChans, waitChan,
                 responses, sinks, cmHeld>>

\* Client.writePump takes the next message off c.ToClient
writePump ==
  /\ \E c \in writers :
       /\ toClient[c] > 0
       /\ toClient' = [toClient EXCEPT ![c] = @ - 1]
  /\ UNCHANGED <<ctlVars, mpqVars, connVars, envVars, gth, clients, pumped,
                 closed, broadcast, register, unregister, waitRequestChan,
                 sigRequestChan, aggResponseChan, waitingChans, waitChan,
                 responses, sinks, cmHeld>>

\* ------------------------------------------------------------ ClientManager
\* len(m.clients) == len(m.validators)-1
AllConnected(cl) == Cardinality(cl) = NumValidators - 1

\* a send on responseChan (capacity len(m.validators)-1) can proceed; a nil
\* channel, the value of m.responses for a digest without entry, never can
CanDeliver(sink) == sink # 0 /\ Len(sinks[sink]) < NumValidators - 1

\* the addresses of the followers in a live set
Addresses(cl) == {connAddr[c] : c \in cl}

\* history of the wait of the running Create round: the addresses that were in
\* the live set at some moment since the manager took its wait request
Seen(waiters, cl) ==
  IF pc = "WaitForFollowers" /\ rd.n \in waiters
    THEN [rd EXCEPT !.seen = @ \cup Addresses(cl)] ELSE rd

\* case waitRequest := <-m.waitRequestChan
CmWaitRequest ==
  /\ cmHeld = <<>>
  /\ waitRequestChan # <<>>
  /\ waitRequestChan' = Tail(waitRequestChan)
  /\ IF AllConnected(clients)
       THEN /\ waitChan' = waitChan \cup {Head(waitRequestChan)}
            /\ UNCHANGED waitingChans
       ELSE /\ waitingChans' = waitingChans \cup {Head(waitRequestChan)}
            /\ UNCHANGED waitChan
  /\ rd' = Seen({Head(waitRequestChan)}, clients)
  /\ UNCHANGED <<pc, pendingForProcessing, requestChan, retChan, errChan,
                 nround, ncalls, inflight, mpqVars, connVars, envVars, gth, clients, pumped,
                 toClient, closed, broadcast, register, unregister,
                 sigRequestChan, aggResponseChan, responses, sinks, cmHeld>>

\* case response := <-aggResponseChan:
\*   m.responses[value.NewHashFromBuf(response.response.RequestId)] <- response
CmResponse ==
  /\ cmHeld = <<>>
  /\ aggResponseChan # <<>>
  /\ aggResponseChan' = Tail(aggResponseChan)
  /\ LET response == Head(aggResponseChan)
         sink == responses[response.id] IN
       IF CanDeliver(sink)
         THEN /\ sinks' = [sinks EXCEPT ![sink] = Append(@, response)]
              /\ UNCHANGED cmHeld
         ELSE /\ cmHeld' = <<[response |-> response, sink |-> sink]>>
              /\ UNCHANGED sinks
  /\ UNCHANGED <<ctlVars, mpqVars, connVars, envVars, gth, clients, pumped,
                 toClient, closed, broadcast, register, unregister,
                 waitRequestChan, sigRequestChan, waitingChans, waitChan,
                 responses>>

\* the send the manager was blocked in completes once the sink has room
CmResponseUnblock ==
  /\ cmHeld # <<>>
  /\ CanDeliver(cmHeld[1].sink)
  /\ sinks' = [sinks EXCEPT ![cmHeld[1].sink] = Append(@, cmHeld[1].response)]
  /\ cmHeld' = <<>>
  /\ UNCHANGED <<ctlVars, mpqVars, connVars, envVars, gth, clients, pumped,
                 toClient, closed, broadcast, register, unregister,
                 waitRequestChan, sigRequestChan, aggResponseChan,
                 waitingChans, waitChan, responses>>

\* case request := <-m.sigRequestChan
CmSigRequest ==
  /\ cmHeld = <<>>
  /\ sigRequestChan # <<>>
  /\ Len(broadcast) < BroadcastCap
  /\ LET request == Head(sigRequestChan) IN
       /\ broadcast' = Append(broadcast, request.request)
       /\ responses' = [responses EXCEPT ![request.requestID] = request.responseChan]
  /\ sigRequestChan' = Tail(sigRequestChan)
  /\ UNCHANGED <<ctlVars, mpqVars, connVars, envVars, gth, clients, pumped,
                 toClient, closed, register, unregister, waitRequestChan,
                 aggResponseChan, waitingChans, waitChan, sinks, cmHeld>>

\* case client := <-m.register
CmRegister ==
  /\ cmHeld = <<>>
  /\ register # <<>>
  /\ register' = Tail(register)
  /\ clients' = clients \cup {Head(register)}
  /\ pumped' = pumped \cup {Head(register)}
  /\ IF AllConnected(clients')
       THEN /\ waitChan' = waitChan \cup waitingChans
            /\ waitingChans' = {}
       ELSE UNCHANGED <<waitChan, waitingChans>>
  /\ rd' = Seen(waitingChans \cup waitChan, clients')
  /\ UNCHANGED <<pc, pendingForProcessing, requestChan, retChan, errChan,
                 nround, ncalls, inflight, mpqVars, connVars, envVars, gth, toClient, closed,
                 broadcast, unregister, waitRequestChan, sigRequestChan,
                 aggResponseChan, responses, sinks, cmHeld>>

\* mutant of Registered: the record is closed whether it is live or not
RegisteredAlways(client, cl) == TRUE

\* if _, ok := m.clients[client]; ok
Registered(client, cl) == client \in cl

\* case client := <-m.unregister
CmUnregister ==
  /\ cmHeld = <<>>
  /\ unregister # <<>>
  /\ unregister' = Tail(unregister)
  /\ LET client == Head(unregister) IN
       IF Registered(client, clients)
         THEN /\ clients' = clients \ {client}
              /\ closed' = [closed EXCEPT ![client] = @ + 1]
         ELSE UNCHANGED <<clients, closed>>
  /\ UNCHANGED <<ctlVars, mpqVars, connVars, envVars, gth, pumped, toClient,
                 broadcast, register, waitRequestChan, sigRequestChan,
                 aggResponseChan, waitingChans, waitChan, responses, sinks,
                 cmHeld>>

\* mutant of HasRoom: a follower is evicted while one slot is left
HasRoomButOne(cl) == {c \in cl : toClient[c] + 1 < ToClientCap}

\* the followers whose outbound buffer takes one more message
HasRoom(cl) == {c \in cl : toClient[c] < ToClientCap}

\* case message := <-m.broadcast
CmBroadcast ==
  /\ cmHeld = <<>>
  /\ broadcast # <<>>
  /\ broadcast' = Tail(broadcast)
  /\ toClient' = [c \in Conns |->
                    IF c \in HasRoom(clients)
                      THEN toClient[c] + 1
                      ELSE toClient[c]]
  /\ closed' = [c \in Conns |->
                  IF c \in clients \ HasRoom(clients)
                    THEN closed[c] + 1 ELSE closed[c]]
  /\ clients' = HasRoom(clients)
  /\ UNCHANGED <<ctlVars, mpqVars, connVars, envVars, gth, pumped, register,
                 unregister, waitRequestChan, sigRequestChan,
                 aggResponseChan, waitingChans, waitChan, responses, sinks,
                 cmHeld>>

\* --------------------------------------------------------- gatherSignatures
GatherSignatureRequest(request, responseChan, requestID) ==
  [request |-> request, responseChan |-> responseChan, requestID |-> requestID]

\* len(responseList) == len(m.validators)-1
GatherComplete(responseList) == Len(responseList) = NumValidators - 1

NoGather == [st |-> "none", id |-> 0, got |-> <<>>]

\* gatherSignatures returns responseList: to createVMImpl, or into
\* responsesChan, which nobody reads once the round of the task has returned
Gathered(r, responseList) ==
  IF rd.n = r /\ pc \in {"createGather", "unanResults", "unanResponses"}
    THEN [st |-> "done", id |-> gth[r].id, got |-> responseList]
    ELSE NoGather

\* the task started by _initiateUnanimousAssertionImpl reaches
\* m.sigRequestChan <- GatherSignatureRequest{...}
gatherSignaturesSend ==
  /\ Len(sigRequestChan) < SigRequestCap
  /\ \E r \in Rounds :
       /\ gth[r].st = "unsent"
       /\ sigRequestChan' = Append(sigRequestChan,
            GatherSignatureRequest(ValidatorRequest("Unanimous", gth[r].id, TRUE),
                                   r, gth[r].id))
       /\ gth' = [gth EXCEPT ![r].st = "collecting"]
       /\ rd' = IF rd.n = r THEN [rd EXCEPT !.sigSent = TRUE] ELSE rd
  /\ UNCHANGED <<pc, pendingForProcessing, requestChan, retChan, errChan,
                 nround, ncalls, inflight, cmOwn, broadcast, waitRequestChan,
                 waitChan, mpqVars, connVars, envVars>>

\* case response := <-responseChan
gatherSignaturesRecv ==
  /\ \E r \in Rounds :
       /\ gth[r].st = "collecting"
       /\ sinks[r] # <<>>
       /\ sinks' = [sinks EXCEPT ![r] = Tail(@)]
       /\ LET responseList == Append(gth[r].got, Head(sinks[r])) IN
            gth' = [gth EXCEPT ![r] =
                      IF ~GatherComplete(responseList)
                        THEN [@ EXCEPT !.got = responseList]
                        ELSE Gathered(r, responseList)]
  /\ UNCHANGED <<ctlVars, mpqVars, connVars, envVars, clients, pumped,
                 toClient, closed, broadcast, register, unregister,
                 waitRequestChan, sigRequestChan, aggResponseChan,
                 waitingChans, waitChan, responses, cmHeld>>

\* case <-timer.C: the 20 s timer fires
gatherSignaturesTimeout ==
  /\ \E r \in Rounds :
       /\ gth[r].st = "collecting"
       /\ gth' = [gth EXCEPT ![r] = Gathered(r, gth[r].got)]
  /\ UNCHANGED <<ctlVars, mpqVars, connVars, envVars, cmVars>>

\* ------------------------------------------------- the exposed coordinator API
LeaderRequest(kind, final, call) == [kind |-> kind, final |-> final, call |-> call]

CreateVM ==
  /\ "create" \in load.kinds
  /\ ncalls < load.call
  /\ Len(requestChan) < RequestChanCap
  /\ ncalls' = ncalls + 1
  /\ requestChan' = Append(requestChan, LeaderRequest("create", FALSE, ncalls + 1))
  /\ UNCHANGED <<pc, rd, pendingForProcessing, retChan, errChan, nround,
                 inflight, cmVars, mpqVars, connVars, envVars, gth>>

InitiateDisputableAssertion ==
  /\ "disputable" \in load.kinds
  /\ ncalls < load.call
  /\ Len(requestChan) < RequestChanCap
  /\ ncalls' = ncalls + 1
  /\ requestChan' = Append(requestChan, LeaderRequest("disputable", FALSE, ncalls + 1))
  /\ UNCHANGED <<pc, rd, pendingForProcessing, retChan, errChan, nround,
                 inflight, cmVars, mpqVars, connVars, envVars, gth>>

InitiateUnanimousAssertion ==
  /\ "unanimous" \in load.kinds
  /\ ncalls < load.call
  /\ Len(requestChan) < RequestChanCap
  /\ ncalls' = ncalls + 1
  /\ \E final \in BOOLEAN :
       requestChan' = Append(requestChan, LeaderRequest("unanimous", final, ncalls + 1))
  /\ UNCHANGED <<pc, rd, pendingForProcessing, retChan, errChan, nround,
                 inflight, cmVars, mpqVars, connVars, envVars, gth>>

\* ------------------------------------------------ ValidatorCoordinator.Run
\* mutant of ControllerIdle: requests and ticks are taken while a handler runs
ControllerAlwaysReady == TRUE

\* the Controller task is at the select of its loop
ControllerIdle == pc = "idle"

NewRound(kind, origin, final) ==
  [NoRound EXCEPT !.n = nround + 1, !.kind = kind, !.origin = origin,
                  !.final = final]

\* the handler returns to the loop of Run, which delivers the result:
\* request.errChan <- err, or request.retChan <- ret; the tick drops it
Return(r, isErr, value) ==
  /\ rd' = [r EXCEPT !.at = pc]
  /\ pc' = "idle"
  /\ inflight' = inflight - 1
  /\ IF r.origin = 0
       THEN /\ pendingForProcessing' = r.final
            /\ UNCHANGED <<retChan, errChan>>
       ELSE IF isErr
         THEN /\ errChan' = [errChan EXCEPT ![r.origin] = Append(@, value)]
              /\ UNCHANGED <<retChan, pendingForProcessing>>
         ELSE /\ retChan' = [retChan EXCEPT ![r.origin] = Append(@, value)]
              /\ pendingForProcessing' =
                   IF r.kind = "unanimous" THEN FALSE ELSE pendingForProcessing
              /\ UNCHANGED errChan

ReturnErr(r, err) == Return([r EXCEPT !.outcome = err], TRUE, err)
ReturnVal(r, ret) ==
  Return([r EXCEPT !.outcome = IF ret THEN "true" ELSE "false"], FALSE, ret)

\* case CoordinatorCreateRequest: createVMImpl starts with
\* WaitForFollowers, which sends its waitChan on m.waitRequestChan
RunCreateRequest ==
  /\ ControllerIdle
  /\ requestChan # <<>>
  /\ Head(requestChan).kind = "create"
  /\ nround < load.round
  /\ Len(waitRequestChan) < WaitRequestCap
  /\ requestChan' = Tail(requestChan)
  /\ nround' = nround + 1
  /\ inflight' = inflight + 1
  /\ rd' = NewRound("create", Head(requestChan).call, FALSE)
  /\ waitRequestChan' = Append(waitRequestChan, nround + 1)
  /\ pc' = "WaitForFollowers"
  /\ UNCHANGED <<pendingForProcessing, retChan, errChan, ncalls, cmOwn,
                 broadcast, sigRequestChan, waitChan, mpqVars, connVars,
                 envVars, gth>>

\* mutant of NotAllConnected: the result of WaitForFollowers is ignored
NotAllConnectedIgnored(gotAll) == FALSE

\* if !gotAll { return false, errors.New(...) }
NotAllConnected(gotAll) == ~gotAll

\* WaitForFollowers returns: true from case <-waitChan, false from
\* case <-time.After(timeout); createVMImpl returns the error or goes on to
\* Bot.RequestVMState, CreateVMHash and the send of gatherSignatures
WaitForFollowers ==
  /\ pc = "WaitForFollowers"
  /\ \E gotAll \in {FALSE, rd.n \in waitChan} :
       LET r == [rd EXCEPT !.gotAll = IF gotAll THEN "true" ELSE "false"] IN
         IF NotAllConnected(gotAll)
           THEN /\ ReturnErr(r, ErrNotConnected)
                /\ UNCHANGED <<sigRequestChan, gth>>
           ELSE /\ Len(sigRequestChan) < SigRequestCap
                /\ rd' = [r EXCEPT !.hashId = CreateHashVal, !.sigSent = TRUE,
                                   !.botCalls = @ \cup {"RequestVMState"}]
                /\ sigRequestChan' = Append(sigRequestChan,
                     GatherSignatureRequest(
                       ValidatorRequest("Create", CreateHashVal, TRUE),
                       rd.n, CreateHashVal))
                /\ gth' = [gth EXCEPT ![rd.n] =
                             [st |-> "collecting", id |-> CreateHashVal,
                              got |-> <<>>]]
                /\ pc' = "createGather"
                /\ UNCHANGED <<pendingForProcessing, retChan, errChan, inflight>>
  /\ waitChan' = waitChan \ {rd.n}
  /\ UNCHANGED <<requestChan, nround, ncalls, cmOwn, broadcast,
                 waitRequestChan, mpqVars, connVars, envVars>>

\* the signature vector both round kinds assemble: the coordinator's own
\* signature at its index, each response's signature at the index of the
\* response's address, the zero value elsewhere
Signatures(resps) ==
  [i \in Indices |->
     IF i = CoordinatorIndex THEN SigOf(CoordinatorIndex)
     ELSE IF \E k \in 1 .. Len(resps) : indexNum(resps[k].address) = i
       THEN SigOf(i) ELSE NoSig]

\* the responses that stop the loop over the responses of a Create round
CreateRefused(resps) == \E k \in 1 .. Len(resps) : ~resps[k].accepted

\* createVMImpl from the return of gatherSignatures to its own return
createVMImpl ==
  /\ pc = "createGather"
  /\ gth[rd.n].st = "done"
  /\ gth' = [gth EXCEPT ![rd.n] = NoGather]
  /\ LET resps == gth[rd.n].got
         r == [rd EXCEPT !.got = resps] IN
       IF ~GatherComplete(resps)
         THEN /\ Len(broadcast) < BroadcastCap
              /\ broadcast' = Append(broadcast,
                                ValidatorRequest("CreateNotification", 0, FALSE))
              /\ ReturnErr([r EXCEPT !.notified = Append(@, FALSE)], ErrNoResponse)
         ELSE IF CreateRefused(resps)
           THEN /\ \E signErr \in BOOLEAN :
                     ReturnErr(r, IF signErr THEN ErrLocal ELSE ErrRefused)
                /\ UNCHANGED broadcast
           ELSE /\ UNCHANGED broadcast
                /\ \/ ReturnErr(r, ErrLocal)
                   \/ \E botErr \in BOOLEAN :
                     LET r2 == [r EXCEPT !.sigs = Signatures(resps),
                                         !.botCalls = @ \cup {"CreateVM"}] IN
                       IF botErr THEN ReturnErr(r2, ErrBot)
                                 ELSE ReturnVal(r2, TRUE)
  /\ UNCHANGED <<requestChan, nround, ncalls, cmOwn, waitRequestChan,
                 waitChan, sigRequestChan, mpqVars, connVars, envVars>>

\* case CoordinatorDisputableRequest: Bot.RequestDisputableAssertion
RunDisputableRequest ==
  /\ ControllerIdle
  /\ requestChan # <<>>
  /\ Head(requestChan).kind = "disputable"
  /\ nround < load.round
  /\ requestChan' = Tail(requestChan)
  /\ nround' = nround + 1
  /\ inflight' = inflight + 1
  /\ rd' = [NewRound("disputable", Head(requestChan).call, FALSE)
              EXCEPT !.botCalls = {"RequestDisputableAssertion"}]
  /\ pc' = "disputable"
  /\ UNCHANGED <<pendingForProcessing, retChan, errChan, ncalls, cmVars,
                 mpqVars, connVars, envVars, gth>>

\* res := <-resultChan
initiateDisputableAssertionImpl ==
  /\ pc = "disputable"
  /\ \E res \in BOOLEAN : ReturnVal(rd, res)
  /\ UNCHANGED <<requestChan, nround, ncalls, cmVars, mpqVars, connVars,
                 envVars, gth>>

\* ------------------------------------------- initiateUnanimousAssertionImpl
\* queuedMessages := <-m.mpq.Fetch(), then
\* Bot.InitiateUnanimousRequest(10000, newMessages, forceFinal)
initiateUnanimousAssertionImpl(origin, final) ==
  /\ nround < load.round
  /\ nround' = nround + 1
  /\ inflight' = inflight + 1
  /\ rd' = [NewRound("unanimous", origin, final)
              EXCEPT !.batch = FetchBatch,
                     !.botCalls = {"InitiateUnanimousRequest"}]
  /\ queuedMessages' = <<>>
  /\ mpqRequests' = <<>>
  /\ pc' = "unanRequest"

\* case CoordinatorUnanimousRequest
RunUnanimousRequest ==
  /\ ControllerIdle
  /\ requestChan # <<>>
  /\ Head(requestChan).kind = "unanimous"
  /\ requestChan' = Tail(requestChan)
  /\ initiateUnanimousAssertionImpl(Head(requestChan).call, Head(requestChan).final)
  /\ UNCHANGED <<pendingForProcessing, retChan, errChan, ncalls, cmVars,
                 connVars, envVars, gth>>

\* mutant of TickDecision: pendingForProcessing is not consulted
TickDecisionNoFlag(botPending, hasMessages, pending) ==
  IF botPending THEN "final"
  ELSE IF hasMessages THEN "open" ELSE "idle"

\* the decision of the tick handler: "final" for a round with forceFinal,
\* "open" for a round without, "idle" for no round
TickDecision(botPending, hasMessages, pending) ==
  IF botPending THEN "final"
  ELSE IF hasMessages \/ pending THEN "open" ELSE "idle"

\* case <-time.After(time.Second)
Tick ==
  /\ ControllerIdle
  /\ \E botPending \in {FALSE, load.botPending} :
       LET decision == TickDecision(botPending, HasMessages, pendingForProcessing) IN
         /\ hasPendingMessages' = botPending
         /\ IF decision = "idle"
              THEN /\ queuedMessages' = MpqDrain(queuedMessages, mpqRequests)
                   /\ mpqRequests' = <<>>
                   /\ UNCHANGED <<pc, rd, nround, inflight>>
              ELSE initiateUnanimousAssertionImpl(0, decision = "final")
  /\ UNCHANGED <<pendingForProcessing, requestChan, retChan, errChan, ncalls,
                 cmVars, connVars, nsent, nresp, nexit, load, confirmed, gth>>

\* mutant of ReturnBatch: the error is returned without m.mpq.Return
ReturnBatchForgotten(r, err) ==
  /\ ReturnErr(r, err)
  /\ UNCHANGED mpqRequests

\* initiateUnanimousAssertionImpl on an error of _initiateUnanimousAssertionImpl:
\* m.mpq.Return(queuedMessages); return false, err
ReturnBatch(r, err) ==
  /\ Len(mpqRequests) < MpqCap
  /\ mpqRequests' = Append(mpqRequests, MpqRequest("Return", r.batch))
  /\ ReturnErr([r EXCEPT !.returned = TRUE], err)

\* notifyFollowers of _initiateUnanimousAssertionImpl
NotifyFollowers(accepted) ==
  /\ Len(broadcast) < BroadcastCap
  /\ broadcast' = Append(broadcast,
       ValidatorRequest("UnanimousNotification", rd.hashId, accepted))

\* case err := <-unanErrChan, while waiting for the request
UnanRequestErr ==
  /\ pc = "unanRequest"
  /\ ReturnBatch(rd, ErrBot)
  /\ UNCHANGED <<requestChan, nround, ncalls, cmVars, connVars, envVars, gth,
                 queuedMessages>>

\* case unanRequest = <-requestChan: hashId := unanRequest.Hash() and the
\* task that runs gatherSignatures is started
UnanRequest ==
  /\ pc = "unanRequest"
  /\ \E hashId \in UnanDigests :
       /\ rd' = [rd EXCEPT !.hashId = hashId]
       /\ gth' = [gth EXCEPT ![rd.n] = [st |-> "unsent", id |-> hashId,
                                        got |-> <<>>]]
  /\ pc' = "unanResults"
  /\ UNCHANGED <<pendingForProcessing, requestChan, retChan, errChan, nround,
                 ncalls, inflight, cmVars, mpqVars, connVars, envVars>>

\* the round returns without reading responsesChan: a list the gather task
\* has put there is never read
Abandon ==
  [gth EXCEPT ![rd.n] = IF @.st = "done" THEN NoGather ELSE @]

\* case err := <-unanErrChan, while waiting for the results
UnanResultsErr ==
  /\ pc = "unanResults"
  /\ NotifyFollowers(FALSE)
  /\ ReturnBatch([rd EXCEPT !.notified = Append(@, FALSE)], ErrBot)
  /\ gth' = Abandon
  /\ UNCHANGED <<requestChan, nround, ncalls, cmOwn, waitRequestChan,
                 waitChan, sigRequestChan, connVars, envVars, queuedMessages>>

\* mutant of ForceSequenceNum: the sequence number of the Bot is kept
KeepSequenceNum(sequenceNum, outMsgs) == sequenceNum

\* if len(unanUpdate.Assertion.OutMsgs) > 0 { unanUpdate.SequenceNum = math.MaxUint64 }
ForceSequenceNum(sequenceNum, outMsgs) ==
  IF outMsgs > 0 THEN MAX_U64 ELSE sequenceNum

\* case unanUpdate = <-resultsChan, then UnanimousAssertHash and Sign; either
\* of the two may fail
UnanResults ==
  /\ pc = "unanResults"
  /\ \E sequenceNum \in SeqNums, outMsgs \in 0 .. 1, localErr \in BOOLEAN :
       LET seq == ForceSequenceNum(sequenceNum, outMsgs)
           r == [rd EXCEPT !.outMsgs = outMsgs, !.seq = seq,
                           !.unanHash = UnanimousAssertHash(seq)] IN
         IF localErr
           THEN /\ NotifyFollowers(FALSE)
                /\ ReturnBatch([rd EXCEPT !.notified = Append(@, FALSE)], ErrLocal)
                /\ gth' = Abandon
           ELSE /\ rd' = r
                /\ pc' = "unanResponses"
                /\ UNCHANGED <<pendingForProcessing, retChan, errChan, inflight,
                               broadcast, mpqRequests, gth>>
  /\ UNCHANGED <<requestChan, nround, ncalls, cmOwn, waitRequestChan,
                 waitChan, sigRequestChan, connVars, envVars, queuedMessages>>

\* mutant of FirstBad: the assertion hash of the responses is not compared
FirstBadAcceptedOnly(resps, unanHash) ==
  LET bad == {k \in 1 .. Len(resps) : ~resps[k].accepted} IN
    IF bad = {} THEN 0 ELSE CHOOSE k \in bad : \A j \in bad : k <= j

\* the loop over the responses of a unanimous round stops at the first
\* response that refuses or carries another assertion hash: 0 if none does
FirstBad(resps, unanHash) ==
  LET bad == {k \in 1 .. Len(resps) :
                ~resps[k].accepted \/ resps[k].hash # unanHash} IN
    IF bad = {} THEN 0 ELSE CHOOSE k \in bad : \A j \in bad : k <= j

\* responses := <-responsesChan and the checks up to the notification; on
\* success Bot.ConfirmOffchainUnanimousAssertion is called
UnanResponses ==
  /\ pc = "unanResponses"
  /\ gth[rd.n].st = "done"
  /\ gth' = [gth EXCEPT ![rd.n] = NoGather]
  /\ LET resps == gth[rd.n].got
         r == [rd EXCEPT !.got = resps]
         bad == FirstBad(resps, rd.unanHash) IN
       IF ~GatherComplete(resps) \/ bad # 0
         THEN /\ NotifyFollowers(FALSE)
              /\ ReturnBatch([r EXCEPT !.notified = Append(@, FALSE)],
                   IF ~GatherComplete(resps) THEN ErrNoResponse
                   ELSE IF ~resps[bad].accepted THEN ErrRefused
                   ELSE ErrWrongAssertion)
         ELSE /\ NotifyFollowers(TRUE)
              /\ rd' = [r EXCEPT !.notified = Append(@, TRUE),
                                 !.sigs = Signatures(resps),
                                 !.botCalls = @ \cup {"ConfirmOffchainUnanimousAssertion"}]
              /\ pc' = "unanConfirm"
              /\ UNCHANGED <<pendingForProcessing, retChan, errChan, inflight,
                             mpqRequests>>
  /\ UNCHANGED <<requestChan, nround, ncalls, cmOwn, waitRequestChan,
                 waitChan, sigRequestChan, connVars, envVars, queuedMessages>>

\* return unanUpdate.SequenceNum == math.MaxUint64, nil
IsFinal(sequenceNum) == sequenceNum = MAX_U64

\* case err := <-confErrChan
UnanConfirmErr ==
  /\ pc = "unanConfirm"
  /\ ReturnBatch(rd, ErrBot)
  /\ UNCHANGED <<requestChan, nround, ncalls, cmVars, connVars, envVars, gth,
                 queuedMessages>>

\* case <-confRetChan, then initiateUnanimousAssertionImpl's if isFinal
UnanConfirm ==
  /\ pc = "unanConfirm"
  /\ confirmed' = confirmed \cup {rd.batch[k] : k \in 1 .. Len(rd.batch)}
  /\ IF IsFinal(rd.seq)
       THEN /\ rd' = [rd EXCEPT !.botCalls = @ \cup {"CloseUnanimousAssertionRequest"}]
            /\ pc' = "unanClose"
            /\ UNCHANGED <<pendingForProcessing, retChan, errChan, inflight>>
       ELSE ReturnVal(rd, TRUE)
  /\ UNCHANGED <<requestChan, nround, ncalls, cmVars, mpqVars, connVars,
                 nsent, nresp, nexit, load, hasPendingMessages, gth>>

\* closed := <-closedChan; return closed, nil
UnanClose ==
  /\ pc = "unanClose"
  /\ \E isClosed \in BOOLEAN : ReturnVal([rd EXCEPT !.closure = <<isClosed>>], isClosed)
  /\ UNCHANGED <<requestChan, nround, ncalls, cmVars, mpqVars, connVars,
                 envVars, gth>>

\* ------------------------------------------------------------ specification
Next ==
  \/ SendMessage \/ MpqRun
  \/ RunServer \/ readPumpExit \/ readPump \/ writePump
  \/ CmWaitRequest \/ CmResponse \/ CmResponseUnblock \/ CmSigRequest
  \/ CmRegister \/ CmUnregister \/ CmBroadcast
  \/ gatherSignaturesSend \/ gatherSignaturesRecv \/ gatherSignaturesTimeout
  \/ CreateVM \/ InitiateDisputableAssertion \/ InitiateUnanimousAssertion
  \/ RunCreateRequest \/ WaitForFollowers
  \/ createVMImpl \/ RunDisputableRequest \/ initiateDisputableAssertionImpl
  \/ RunUnanimousRequest \/ Tick
  \/ UnanRequestErr \/ UnanRequest \/ UnanResultsErr \/ UnanResults
  \/ UnanResponses \/ UnanConfirmErr \/ UnanConfirm \/ UnanClose

Spec == Init /\ [][Next]_vars

\* the loops and tasks of the coordinator are scheduled fairly, the timers
\* fire and the Bot answers its one-shot channels; the callers of the API and
\* the followers are free
Fairness ==
  /\ WF_vars(MpqRun)
  /\ WF_vars(CmWaitRequest) /\ WF_vars(CmResponse) /\ WF_vars(CmResponseUnblock)
  /\ WF_vars(CmSigRequest) /\ WF_vars(CmRegister) /\ WF_vars(CmUnregister)
  /\ WF_vars(CmBroadcast)
  /\ WF_vars(gatherSignaturesSend) /\ WF_vars(gatherSignaturesRecv)
  /\ WF_vars(gatherSignaturesTimeout)
  /\ WF_vars(RunCreateRequest) /\ WF_vars(WaitForFollowers) /\ WF_vars(createVMImpl)
  /\ WF_vars(RunDisputableRequest) /\ WF_vars(initiateDisputableAssertionImpl)
  /\ WF_vars(RunUnanimousRequest)
  /\ WF_vars(UnanRequestErr \/ UnanRequest)
  /\ WF_vars(UnanResultsErr \/ UnanResults)
  /\ WF_vars(UnanResponses)
  /\ WF_vars(UnanConfirmErr \/ UnanConfirm)
  /\ WF_vars(UnanClose)

FairInit == Start(Workloads \cup StallWorkloads)
FairSpec == FairInit /\ [][Next]_vars /\ Fairness

\* ------------------------------------------------------------------ claims
\* the last round has called the Bot method
Called(method) == method \in rd.botCalls

\* the round has handed a signature vector to the Bot
Finalized == Called("CreateVM") \/ Called("ConfirmOffchainUnanimousAssertion")

\* C1: whenever the coordinator finalizes a round, the signature vector has
\* length N and a signature at every validator index, and the gathered
\* responses come from N-1 pairwise distinct follower addresses, whatever
\* the followers answered
C1_SignatureVectorComplete ==
  Finalized =>
    /\ DOMAIN rd.sigs = Indices
    /\ \A i \in Indices : rd.sigs[i] # NoSig
    /\ \A j, k \in 1 .. Len(rd.got) :
         j # k => rd.got[j].address # rd.got[k].address

\* a Create round that passed the all-connected gate has returned
CreatePastGate ==
  rd.kind = "create" /\ rd.gotAll = "true" /\ rd.outcome # "running"

\* all N-1 followers signed the Create request
AllSigned == GatherComplete(rd.got) /\ ~CreateRefused(rd.got)

\* C2: every Create round that passes the all-connected gate broadcasts one
\* create-finalized notification, with Approved equal to whether all followers
\* signed
C2_CreateNotifiesOutcome ==
  CreatePastGate => rd.notified = <<AllSigned>>

\* C3: a Create round whose WaitForFollowers failed yields the error "coordinator
\* can only create VM when connected to all other validators" on the error
\* channel of the call and nothing on its reply channel, sends no message of
\* the round to the Client Manager and calls no Bot method
C3_NotConnectedAborts ==
  (rd.kind = "create" /\ rd.gotAll = "false") =>
    /\ pc = "idle"
    /\ errChan[rd.origin] = <<ErrNotConnected>>
    /\ retChan[rd.origin] = <<>>
    /\ ~rd.sigSent
    /\ rd.notified = <<>>
    /\ rd.botCalls = {}
    /\ \A k \in 1 .. Len(sigRequestChan) : sigRequestChan[k].responseChan # rd.n
    /\ gth[rd.n].st = "none"

C3_Witness ==
  /\ rd.kind = "create" /\ rd.gotAll = "false"
  /\ errChan[rd.origin] = <<ErrNotConnected>>
  /\ clients # {}

\* C4: WaitForFollowers returns true only if every other validator was in the
\* live set at some moment since the manager took the wait request
C4_WaitTrueOnlyIfAllConnected ==
  (rd.kind = "create" /\ rd.gotAll = "true") => rd.seen = Followers

\* the contents of the ingress queue once its loop has taken the pending requests
Queued == MpqDrain(queuedMessages, mpqRequests)
Elems(seq) == {seq[k] : k \in 1 .. Len(seq)}
IsSorted(seq) == \A j, k \in 1 .. Len(seq) : j < k => seq[j] < seq[k]

\* the batch of the round in flight: fetched, neither returned nor confirmed
InFlight ==
  IF pc \in {"unanRequest", "unanResults", "unanResponses", "unanConfirm"}
    THEN rd.batch ELSE <<>>

\* C5: the messages in the ingress queue are the messages ever sent minus the
\* messages of the rounds the Bot confirmed minus the batch in flight, each
\* once; a Fetch immediately followed by a Return of its batch leaves the
\* contents as they were
C5_MessageConservation ==
  /\ Len(Queued) + Len(InFlight) + Cardinality(confirmed) = nsent
  /\ Elems(Queued) \cup Elems(InFlight) \cup confirmed = 1 .. nsent
  /\ ReturnMessages(Queued, <<>>) = Queued

C5_Witness ==
  /\ confirmed # {}
  /\ Queued # <<>>
  /\ pc = "idle"

\* C6: the ingress queue holds the messages that are not confirmed in the order
\* of their Sends, and every message it holds while a round is in flight comes
\* after the messages of the batch of that round
C6_SendOrderKept ==
  /\ IsSorted(queuedMessages)
  /\ IsSorted(Queued)
  /\ \A b \in Elems(InFlight), q \in Elems(Queued) : b < q

C6_Witness ==
  /\ rd.returned
  /\ mpqRequests = <<>>
  /\ Len(queuedMessages) >= 2
  /\ queuedMessages[1] \in Elems(rd.batch)
  /\ queuedMessages[Len(queuedMessages)] \notin Elems(rd.batch)

\* C7: at most one round is in flight on the Controller: a handler is entered,
\* and the tick handler runs, only when no handler has been entered and not
\* returned
C7_OneRoundInFlight ==
  [][(inflight' > inflight \/ Tick) => inflight = 0]_vars

C7_Witness ==
  /\ inflight = 1
  /\ nround >= 2
  /\ requestChan # <<>>

\* C8: a unanimous round notifies Accepted=true and calls
\* Bot.ConfirmOffchainUnanimousAssertion only if it gathered N-1 responses,
\* all of them accepting and all with the assertion hash of the coordinator
C8_AcceptedOnlyIfUnanimous ==
  (rd.kind = "unanimous"
     /\ (TRUE \in Elems(rd.notified) \/ Called("ConfirmOffchainUnanimousAssertion")))
  => /\ Len(rd.got) = NumValidators - 1
     /\ \A k \in 1 .. Len(rd.got) :
          rd.got[k].accepted /\ rd.got[k].hash = rd.unanHash

C8_Witness ==
  /\ rd.kind = "unanimous"
  /\ rd.notified = <<TRUE>>
  /\ Called("ConfirmOffchainUnanimousAssertion")
  /\ rd.seq = MAX_U64

\* C9: a unanimous round that aborts while it waits for the results of the Bot
\* or on the gathered responses has broadcast one notification with
\* Accepted=false, has returned an error to its caller and has returned its
\* batch to the ingress queue, where HasMessages finds it
C9_AbortNotifiesAndReturns ==
  (rd.kind = "unanimous" /\ rd.at \in {"unanResults", "unanResponses"}) =>
    /\ rd.notified = <<FALSE>>
    /\ rd.outcome \in {ErrBot, ErrLocal, ErrNoResponse, ErrRefused, ErrWrongAssertion}
    /\ rd.origin # 0 =>
         errChan[rd.origin] = <<rd.outcome>> /\ retChan[rd.origin] = <<>>
    /\ rd.returned
    /\ rd.batch # <<>> => HasMessages /\ Elems(rd.batch) \subseteq Elems(Queued)

C9_Witness ==
  /\ rd.kind = "unanimous"
  /\ rd.outcome = ErrWrongAssertion
  /\ rd.batch # <<>>
  /\ HasMessages

\* the unanimous round was confirmed by the Bot
Confirmed == pc = "unanClose" \/ rd.outcome \in {"true", "false"}

\* C10: a unanimous round whose results carry outgoing messages hashes and
\* keeps the sequence number MAX_U64; a confirmed round with that sequence
\* number requests the closure and returns its outcome, any other confirmed
\* round requests no closure and returns true
C10_OutMsgsForceClosure ==
  rd.kind = "unanimous" =>
    /\ rd.outMsgs > 0 =>
         rd.seq = MAX_U64 /\ rd.unanHash = UnanimousAssertHash(MAX_U64)
    /\ Confirmed =>
         IF rd.seq = MAX_U64
           THEN /\ Called("CloseUnanimousAssertionRequest")
                /\ pc # "unanClose" =>
                     rd.outcome = (IF rd.closure[1] THEN "true" ELSE "false")
           ELSE /\ ~Called("CloseUnanimousAssertionRequest")
                /\ rd.outcome = "true"

C10_Witness ==
  /\ rd.kind = "unanimous"
  /\ rd.outMsgs > 0
  /\ rd.closure = <<FALSE>>
  /\ rd.outcome = "false"

\* the values delivered to the caller of call c
Delivered(c) == Len(retChan[c]) + Len(errChan[c])

\* C11: every call of the API whose request the Controller has taken off
\* m.requestChan eventually has exactly one value on its reply channel or its
\* error channel, whatever the followers do
C11_EveryCallAnswered ==
  \A c \in Calls : (rd.origin = c) ~> (Delivered(c) = 1)

\* C12: a tick on which the Bot reports no pending messages, and that follows
\* a tick on which it reported some, runs a unanimous round with
\* forceFinal=false, whatever the Controller handled between the two
C12_NextTickDrains ==
  [][(Tick /\ hasPendingMessages /\ ~hasPendingMessages')
       => (nround' = nround + 1 /\ rd'.origin = 0 /\ ~rd'.final)]_vars

\* the connections RunServer's handler has run for
Handled == 1 .. Len(handshake)

\* C13: every follower in the live set passed the handshake and has an
\* address of the validator set; a connection whose handshake failed at the
\* signature, at the address or at the reply is not registered, is not on its
\* way to be, and has neither a reader nor a writer nor a response forwarder
C13_OnlyHandshakenRegistered ==
  /\ \A c \in clients : handshake[c] = "ok" /\ connAddr[c] \in Indices
  /\ \A c \in Handled :
       handshake[c] # "ok" =>
         /\ c \notin clients \cup readers \cup writers \cup pumped
         /\ \A k \in 1 .. Len(register) : register[k] # c
         /\ toClient[c] = 0 /\ closed[c] = 0

C13_Witness ==
  /\ clients # {}
  /\ \E c \in Handled : handshake[c] = "validators" /\ connAddr[c] = Stranger

\* C14: no two records of the live set have the same address, and the live
\* set has at most N-1 records
C14_LiveSetDistinct ==
  /\ \A c1, c2 \in clients : c1 # c2 => connAddr[c1] # connAddr[c2]
  /\ Cardinality(clients) <= NumValidators - 1
  /\ Cardinality(clients) = Cardinality(Addresses(clients))

\* C15: the manager is never held by a response whose request id has no
\* registered sink: such a response is dropped and the loop goes on
C15_UnknownIdDropped ==
  \A k \in 1 .. Len(cmHeld) : cmHeld[k].sink # 0

\* C16: a digest has an entry in m.responses only while the gather of the
\* round that registered it is running
C16_SinkOnlyWhileGathering ==
  \A id \in Digests :
    responses[id] # 0 =>
      gth[responses[id]].st = "collecting" /\ gth[responses[id]].id = id

\* C17: the tick handler decides from the answer of the Bot, the ingress
\* queue and pendingForProcessing: a round with forceFinal if the Bot has
\* pending messages, else a round without if the queue has messages or the
\* flag is set, else no round, nothing fetched and the flag as it was; the
\* flag becomes forceFinal when the round of a tick returns
C17_TickDecisionFunction ==
  [][/\ Tick =>
          IF hasPendingMessages'
            THEN /\ nround' = nround + 1 /\ pc' # "idle"
                 /\ rd'.kind = "unanimous" /\ rd'.origin = 0 /\ rd'.final
            ELSE IF HasMessages \/ pendingForProcessing
              THEN /\ nround' = nround + 1 /\ pc' # "idle"
                   /\ rd'.kind = "unanimous" /\ rd'.origin = 0 /\ ~rd'.final
              ELSE /\ nround' = nround /\ pc' = "idle" /\ rd' = rd
                   /\ Queued' = Queued
                   /\ pendingForProcessing' = pendingForProcessing
     /\ (pc # "idle" /\ pc' = "idle" /\ rd.origin = 0) =>
          pendingForProcessing' = rd.final]_vars

C17_Witness ==
  /\ rd.kind = "unanimous" /\ rd.origin = 0 /\ ~rd.final
  /\ rd.batch = <<>>
  /\ rd.n = 2
  /\ pc = "unanRequest"

\* C18: a broadcast appends the message to the outbound buffer of every live
\* follower whose buffer has room and leaves it in the live set, and closes
\* and removes every live follower whose buffer is full
C18_BroadcastReachesOrEvicts ==
  [][CmBroadcast =>
       \A c \in clients :
         IF toClient[c] < ToClientCap
           THEN /\ toClient'[c] = toClient[c] + 1
                /\ c \in clients' /\ closed'[c] = closed[c]
           ELSE /\ toClient'[c] = toClient[c]
                /\ c \notin clients' /\ closed'[c] = closed[c] + 1]_vars

C18_Witness ==
  /\ nexit = 0
  /\ \E c1, c2 \in Handled :
       /\ closed[c1] = 1 /\ c1 \notin clients
       /\ c2 \in clients /\ toClient[c2] = ToClientCap /\ closed[c2] = 0

\* C19: the outbound channel of a record is closed at most once, and a closed
\* record is not in the live set and not on its way into it, so no broadcast
\* sends on a closed channel
C19_ClosedAtMostOnce ==
  \A c \in Conns :
    /\ closed[c] <= 1
    /\ closed[c] = 1 =>
         c \notin clients /\ \A k \in 1 .. Len(register) : register[k] # c

C19_Witness ==
  /\ nexit > 0 /\ unregister = <<>> /\ register = <<>>
  /\ \E c \in Handled :
       /\ closed[c] = 1 /\ c \notin readers
       /\ toClient[c] = ToClientCap
       /\ clients \ {c} # {}

\* C20: when a unanimous round has put its notification on m.broadcast, the
\* manager has put the request of the round there before: the signature
\* request of the round is neither unsent nor waiting in m.sigRequestChan
C20_RequestBeforeNotification ==
  (rd.kind = "unanimous" /\ rd.notified # <<>>) =>
    /\ gth[rd.n].st # "unsent"
    /\ \A k \in 1 .. Len(sigRequestChan) : sigRequestChan[k].responseChan # rd.n

\* C21: a unanimous round that has returned a batch of ingress messages to
\* the ingress queue has sent the followers no notification with Accepted=true
C21_NoAcceptedAndReturned ==
  (rd.kind = "unanimous" /\ rd.returned /\ rd.batch # <<>>) =>
    TRUE \notin Elems(rd.notified)

====
